---- MODULE Spec2Model ----
(***************************************************************************)
(* File-converter service: the /convert-to-pdf endpoint (main.py), the     *)
(* DOCX -> PDF fallback cascade (converters/docx_to_pdf.py) and the ZIP    *)
(* batch handler (converters/zip_handler.py), over a shared file system.   *)
(*                                                                         *)
(* Strings that the code builds by concatenation are modelled as sequences *)
(* of tokens (<<"id1", "_", "report", ".docx">>), so that splitext, join,  *)
(* dirname and str.replace are computed, not assumed.                      *)
(*                                                                         *)
(* Environment assumptions (outcomes of the external libraries):           *)
(*  E1  a corrupt input makes every parser of it raise;                    *)
(*  E2  on a well-formed input an external engine may be missing or fail   *)
(*      (raise), or return having written a non-empty output, an empty     *)
(*      output, or nothing;                                                *)
(*  E3  opening, reading or writing the content of a file may raise;       *)
(*      os.path.exists and os.remove of an existing file do not; os.rename *)
(*      raises only on Windows, when the destination exists.               *)
(***************************************************************************)
EXTENDS Integers, Sequences, FiniteSets, TLC

VARIABLES platform, fs, req, dx, zp, acc, mr, fonts, tx, pi

vars == <<platform, fs, req, dx, zp, acc, mr, fonts, tx, pi>>

\* the components below the service, each checked on its own inputs
lib == <<mr, fonts, tx, pi>>

(***************************************************************************)
(* Requests in flight.                                                     *)
(***************************************************************************)
Reqs == {"r1", "r2"}

\* uuid.uuid4(): distinct calls yield distinct identifiers
uuid4(r) == IF r = "r1" THEN "id1" ELSE "id2"

(***************************************************************************)
(* Paths and file names (token sequences).                                 *)
(***************************************************************************)
Sep == "/"
UPLOAD_DIR == <<"temp_uploads">>
CWD == <<"", Sep, "app">>

ExtToks == {".docx", ".DOCX", ".txt", ".png", ".jpg", ".jpeg", ".zip", ".xyz",
            ".pdf", ".bmp", ".gif", ".tiff", ".html"}

\* str.lower() on an extension
lower(t) == IF t = ".DOCX" THEN ".docx" ELSE t

\* os.path.join(a, b)
join(a, b) == a \o <<Sep>> \o b

LastSep(p) ==
    LET S == {i \in 1..Len(p) : p[i] = Sep}
    IN IF S = {} THEN 0 ELSE CHOOSE i \in S : \A j \in S : j <= i

\* os.path.dirname / os.path.basename
dirname(p) == IF LastSep(p) = 0 THEN <<>> ELSE SubSeq(p, 1, LastSep(p) - 1)
basename(p) == SubSeq(p, LastSep(p) + 1, Len(p))

\* os.path.splitext: <<root, ext>>; the extension is the last token of the
\* base name when that token is an extension and not the whole base name
splitext(p) ==
    IF Len(basename(p)) > 1 /\ p[Len(p)] \in ExtToks
    THEN <<SubSeq(p, 1, Len(p) - 1), p[Len(p)]>>
    ELSE <<p, "">>

\* os.path.abspath: relative paths are resolved against the working directory
abspath(p) == IF Len(p) > 0 /\ p[1] = "" THEN p ELSE join(CWD, p)

\* str.replace(old, new) at token level: every occurrence is replaced
replace(p, old, new) == [i \in DOMAIN p |-> IF p[i] = old THEN new ELSE p[i]]

\* utils/file_utils.py
get_file_extension(filename) == lower(splitext(filename)[2])

(***************************************************************************)
(* File system: a function from absolute paths to file contents.           *)
(***************************************************************************)
Exists(f, p) == abspath(p) \in DOMAIN f
Content(f, p) == f[abspath(p)]
Write(f, p, c) ==
    [q \in DOMAIN f \cup {abspath(p)} |-> IF q = abspath(p) THEN c ELSE f[q]]
Remove(f, p) == [q \in DOMAIN f \ {abspath(p)} |-> f[q]]
\* "if os.path.exists(p): os.remove(p)"
RemoveIfExists(f, p) == IF Exists(f, p) THEN Remove(f, p) ELSE f
getsize(f, p) == Content(f, p).size

\* contents: an uploaded file, a produced PDF, an intermediate file
Upload(ok, members) ==
    [kind |-> "upload", ok |-> ok, size |-> 1, src |-> <<>>, by |-> "client",
     members |-> members, entries |-> {}]
Produced(kind, src, by, size) ==
    [kind |-> kind, ok |-> TRUE, size |-> size, src |-> src, by |-> by,
     members |-> <<>>, entries |-> {}]

(***************************************************************************)
(* convert_docx_to_pdf: one call frame per request (docx_to_pdf.py).       *)
(***************************************************************************)
NoPath == <<>>

NoCall ==
    [pc |-> "none", input_path |-> NoPath, output_path |-> NoPath,
     html_temp_path |-> NoPath, html_content |-> "unset",
     has_pypandoc |-> "unknown", word |-> "unbound",
     html_branch |-> "none", pdfkit_fail |-> "none",
     attempts |-> <<>>,
     failed |-> {}, result |-> NoPath, by |-> "none"]

\* lines 10-13: where the PDF is written
docx_output_path(input_path, output_filename) ==
    IF output_filename # <<>>
    THEN join(dirname(input_path), output_filename)
    ELSE splitext(input_path)[1] \o <<".pdf">>

\* line 132
docx_html_temp_path(output_path) == replace(output_path, ".pdf", "_temp.html")

\* line 16: the automation strategy is attempted on Windows only
FirstStep(pf) == IF pf = "Windows" THEN "docx2pdf" ELSE "pandoc_pdf"

\* lines 9-16: entry of convert_docx_to_pdf
convert_docx_to_pdf(input_path, output_filename, pf) ==
    [NoCall EXCEPT !.pc = FirstStep(pf),
                   !.input_path = input_path,
                   !.output_path = docx_output_path(input_path, output_filename)]

\* the validation every strategy applies to its output (lines 37, 78, 113,
\* 304, 339): the file exists and has size > 0
ValidOutput_existsOnly(f, p) == Exists(f, p)
ValidOutput(f, p) == Exists(f, p) /\ getsize(f, p) > 0

\* what an engine that returned normally did to the output file (E2)
Effects == {"wrote", "wrote_empty", "nothing"}
ApplyEffect(f, p, e, src, by) ==
    CASE e = "wrote" -> Write(f, p, Produced("pdf", src, by, 1))
      [] e = "wrote_empty" -> Write(f, p, Produced("pdf", src, by, 0))
      [] OTHER -> f

\* is the staged input well-formed (E1)
WellFormed(f, p) == Exists(f, p) /\ Content(f, p).ok

Touch(r, S) == acc' = [acc EXCEPT ![r] = @ \cup {abspath(p) : p \in S}]

\* a strategy starts: it is appended to the trace of attempts
Attempt(d, s) == [d EXCEPT !.attempts = Append(@, s)]
\* a strategy ends in failure and the cascade goes on at step nxt
FallThrough(d, s, nxt) == [d EXCEPT !.failed = @ \cup {s}, !.pc = nxt]
\* a strategy returns path p (lines 39, 80, 115, 306, 341, 665)
ReturnPath_continue(d, p, by) == [d EXCEPT !.pc = "manual", !.by = by]
ReturnPath(d, p, by) == [d EXCEPT !.pc = "returned", !.result = p, !.by = by]

\* lines 17-44: docx2pdf (MS Word)
DxDocx2pdf(r) ==
    /\ dx[r].pc = "docx2pdf"
    /\ LET d == Attempt(dx[r], "automation")
           out == abspath(d.output_path)
       IN \/ \* the import fails: nothing was touched
             /\ dx' = [dx EXCEPT ![r] = [d EXCEPT !.pc = "wordcom"]]
             /\ UNCHANGED <<fs, acc>>
          \/ \* convert() raises, after the old output was removed
             /\ fs' = RemoveIfExists(fs, out)
             /\ dx' = [dx EXCEPT ![r] = [d EXCEPT !.pc = "wordcom"]]
             /\ Touch(r, {out})
          \/ \* convert() returns
             /\ WellFormed(fs, d.input_path)
             /\ \E e \in Effects :
                  LET f1 == ApplyEffect(RemoveIfExists(fs, out), out, e,
                                        d.input_path, "docx2pdf")
                  IN /\ fs' = f1
                     /\ dx' = [dx EXCEPT ![r] =
                                 IF ValidOutput(f1, out)
                                 THEN ReturnPath(d, out, "docx2pdf")
                                 ELSE [d EXCEPT !.pc = "wordcom"]]
             /\ Touch(r, {out, d.input_path})
    /\ UNCHANGED <<lib, platform, req, zp>>

\* line 52: win32com.client.Dispatch started a Word instance
word_started(w) == "running"
\* lines 73 and 88: word.Quit() releases a running instance; on an unbound
\* name or an instance already quit it raises, which line 89 swallows
word_Quit(w) == IF w = "running" THEN "quit" ELSE w
\* lines 84-91: the handler of the Word COM attempt
wordcom_handler_noquit(d) == FallThrough(d, "automation", "pandoc_pdf")
wordcom_handler(d) ==
    FallThrough([d EXCEPT !.word = word_Quit(d.word)], "automation", "pandoc_pdf")

\* lines 46-91: direct Word COM automation, second half of the automation
\* strategy
DxWordCom(r) ==
    /\ dx[r].pc = "wordcom"
    /\ LET d == dx[r]
           out == abspath(d.output_path)
           w == [d EXCEPT !.word = word_started(d.word)]
       IN \/ \* import win32com or Dispatch raises: no instance was started
             /\ dx' = [dx EXCEPT ![r] = wordcom_handler(d)]
             /\ UNCHANGED <<fs, acc>>
          \/ \* Documents.Open or SaveAs raises, after the old output was removed
             /\ fs' = RemoveIfExists(fs, out)
             /\ dx' = [dx EXCEPT ![r] = wordcom_handler(w)]
             /\ Touch(r, {out, d.input_path})
          \/ \* SaveAs returns
             /\ WellFormed(fs, d.input_path)
             /\ \E e \in Effects :
                  LET f1 == ApplyEffect(RemoveIfExists(fs, out), out, e,
                                        d.input_path, "wordcom")
                      q == [w EXCEPT !.word = word_Quit(w.word)]
                  IN /\ fs' = f1
                     /\ \/ \* doc.Close raises
                           dx' = [dx EXCEPT ![r] = wordcom_handler(w)]
                        \/ \* Close and Quit return; lines 78-82 validate
                           dx' = [dx EXCEPT ![r] =
                                    IF ValidOutput(f1, out)
                                    THEN ReturnPath(q, out, "wordcom")
                                    ELSE wordcom_handler(q)]
             /\ Touch(r, {out, d.input_path})
    /\ UNCHANGED <<lib, platform, req, zp>>

\* lines 93-123: pypandoc direct PDF conversion
DxPandocPdf(r) ==
    /\ dx[r].pc = "pandoc_pdf"
    /\ LET d == Attempt(dx[r], "direct")
           out == d.output_path
       IN \/ \* import pypandoc fails
             /\ dx' = [dx EXCEPT ![r] =
                         FallThrough([d EXCEPT !.has_pypandoc = "missing"],
                                     "direct", "html_step1")]
             /\ UNCHANGED <<fs, acc>>
          \/ \* convert_file raises (xelatex not found, or any other error)
             /\ dx' = [dx EXCEPT ![r] =
                         FallThrough([d EXCEPT !.has_pypandoc = "present"],
                                     "direct", "html_step1")]
             /\ Touch(r, {d.input_path})
             /\ UNCHANGED fs
          \/ \* convert_file returns
             /\ WellFormed(fs, d.input_path)
             /\ \E e \in Effects :
                  LET f1 == ApplyEffect(fs, out, e, d.input_path, "pandoc_pdf")
                      d1 == [d EXCEPT !.has_pypandoc = "present"]
                  IN /\ fs' = f1
                     /\ dx' = [dx EXCEPT ![r] =
                                 IF ValidOutput(f1, out)
                                 THEN ReturnPath(d1, out, "pandoc_pdf")
                                 ELSE FallThrough(d1, "direct", "html_step1")]
             /\ Touch(r, {out, d.input_path})
    /\ UNCHANGED <<lib, platform, req, zp>>

\* lines 126-164, step 1 of the HTML bridge: DOCX -> HTML with pypandoc, else
\* with mammoth.  Every exception that is not caught inside the bridge ends
\* in the handler of line 351, which removes nothing.
DxHtmlStep1(r) ==
    /\ dx[r].pc = "html_step1"
    /\ LET d0 == Attempt(dx[r], "bridge")
           html == docx_html_temp_path(d0.output_path)
           d == [d0 EXCEPT !.html_temp_path = html]
       IN \/ \* line 130: import pypandoc fails -> handler of line 351
             /\ d.has_pypandoc = "missing"
             /\ dx' = [dx EXCEPT ![r] = FallThrough(d0, "bridge", "manual")]
             /\ UNCHANGED <<fs, acc>>
          \/ \* lines 136-147: pypandoc wrote the complete HTML file
             /\ d.has_pypandoc = "present"
             /\ WellFormed(fs, d.input_path)
             /\ fs' = Write(fs, html, Produced("html", d.input_path, "pypandoc", 1))
             /\ dx' = [dx EXCEPT ![r] =
                         [d EXCEPT !.html_content = "None", !.pc = "html_step2"]]
             /\ Touch(r, {html, d.input_path})
          \/ \* lines 149-164: pypandoc raised, mammoth is tried
             /\ d.has_pypandoc = "present"
             /\ \/ \* import mammoth or convert_to_html raises
                   /\ dx' = [dx EXCEPT ![r] = FallThrough(d, "bridge", "manual")]
                \/ \* mammoth returns markup, possibly the empty string
                   /\ WellFormed(fs, d.input_path)
                   /\ \E v \in {"markup", "empty"} :
                        dx' = [dx EXCEPT ![r] =
                                 [d EXCEPT !.html_content = v, !.pc = "html_step2"]]
             /\ Touch(r, {d.input_path})
             /\ UNCHANGED fs
    /\ UNCHANGED <<lib, platform, req, zp>>

\* "if html_content:" (line 167): None and the empty string are both falsy
Truthy(v) == v = "markup"

\* lines 166-271, step 2 of the HTML bridge: the finished HTML file
DxHtmlStep2(r) ==
    /\ dx[r].pc = "html_step2"
    /\ LET d == [dx[r] EXCEPT !.html_branch =
                                IF Truthy(dx[r].html_content) THEN "wrap" ELSE "css"]
           html == d.html_temp_path
           failed == FallThrough(d, "bridge", "manual")
           ready == [d EXCEPT !.pc = "pdfkit"]
       IN /\ IF Truthy(d.html_content)
             THEN \* lines 168-247: mammoth markup wrapped in the styled shell
                  \/ /\ fs' = Write(fs, html, Produced("html", d.input_path, "mammoth", 1))
                     /\ dx' = [dx EXCEPT ![r] = ready]
                  \/ \* open(..., 'w') created the file, f.write raises
                     /\ fs' = Write(fs, html, Produced("html", d.input_path, "mammoth", 0))
                     /\ dx' = [dx EXCEPT ![r] = failed]
             ELSE \* lines 249-269: the file pypandoc wrote gets the CSS
                  IF ~Exists(fs, html)
                  THEN \* open(..., 'r') raises FileNotFoundError
                       /\ dx' = [dx EXCEPT ![r] = failed]
                       /\ UNCHANGED fs
                  ELSE \/ /\ fs' = Write(fs, html, Produced("html", d.input_path,
                                                            "pypandoc+css", 1))
                          /\ dx' = [dx EXCEPT ![r] = ready]
                       \/ \* reading the file raises
                          /\ dx' = [dx EXCEPT ![r] = failed]
                          /\ UNCHANGED fs
                       \/ \* open(..., 'w') truncated the file, f.write raises
                          /\ fs' = Write(fs, html, Produced("html", d.input_path,
                                                            "pypandoc+css", 0))
                          /\ dx' = [dx EXCEPT ![r] = failed]
          /\ Touch(r, {html})
    /\ UNCHANGED <<lib, platform, req, zp>>

\* lines 273-318: wkhtmltopdf through pdfkit
DxPdfkit(r) ==
    /\ dx[r].pc = "pdfkit"
    /\ LET d == dx[r]
           html == d.html_temp_path
           out == d.output_path
       IN \/ \* import pdfkit fails, the executable is missing (OSError of line
             \* 310), or from_file raises a rendering error
             /\ dx' = [dx EXCEPT ![r] = [d EXCEPT !.pc = "xhtml2pdf",
                                                 !.pdfkit_fail = "raised"]]
             /\ UNCHANGED <<fs, acc>>
          \/ \* from_file returns; lines 300-308
             /\ \E e \in Effects :
                  LET f1 == ApplyEffect(fs, out, e, d.input_path, "pdfkit")
                      f2 == RemoveIfExists(f1, html)
                  IN /\ fs' = f2
                     /\ dx' = [dx EXCEPT ![r] =
                                 IF ValidOutput(f2, out)
                                 THEN ReturnPath(d, out, "pdfkit")
                                 ELSE [d EXCEPT !.pc = "xhtml2pdf",
                                                !.pdfkit_fail = "output"]]
             /\ Touch(r, {html, out})
    /\ UNCHANGED <<lib, platform, req, zp>>

\* lines 320-349: xhtml2pdf, the pure-library renderer
DxXhtml2pdf(r) ==
    /\ dx[r].pc = "xhtml2pdf"
    /\ LET d == dx[r]
           html == d.html_temp_path
           out == d.output_path
           empty == Write(fs, out, Produced("pdf", d.input_path, "xhtml2pdf", 0))
           \* lines 345-349: the handler removes the temporary HTML file
           failed(f) == /\ fs' = RemoveIfExists(f, html)
                        /\ dx' = [dx EXCEPT ![r] = FallThrough(d, "bridge", "manual")]
       IN /\ \/ \* the import fails, or the HTML file cannot be opened or read
                failed(fs)
             \/ \* the output was opened with 'wb', CreatePDF raises
                /\ Exists(fs, html)
                /\ failed(empty)
             \/ \* CreatePDF returns
                /\ Exists(fs, html)
                /\ \E err \in BOOLEAN, size \in {0, 1} :
                     LET f1 == Write(fs, out, Produced("pdf", d.input_path,
                                                       "xhtml2pdf", size))
                         f2 == RemoveIfExists(f1, html)
                     IN IF ~err /\ ValidOutput(f2, out)
                        THEN /\ fs' = f2
                             /\ dx' = [dx EXCEPT ![r] = ReturnPath(d, out, "xhtml2pdf")]
                        ELSE failed(f2)
          /\ Touch(r, {html, out})
    /\ UNCHANGED <<lib, platform, req, zp>>

\* lines 354-367 and 651-665: python-docx + reportlab.  Nothing here is
\* inside a try block of the function: an exception of Document() or of the
\* second build ends the call.
DxManual(r) ==
    /\ dx[r].pc = "manual"
    /\ LET d == Attempt(dx[r], "manual")
           out == d.output_path
           raised == [FallThrough(d, "manual", "raised") EXCEPT !.pc = "raised"]
       IN \/ \* Document(input_path) raises
             /\ dx' = [dx EXCEPT ![r] = raised]
             /\ Touch(r, {d.input_path})
             /\ UNCHANGED fs
          \/ \* pdf.build raises and so does the build of the error page
             /\ WellFormed(fs, d.input_path)
             /\ dx' = [dx EXCEPT ![r] = raised]
             /\ Touch(r, {d.input_path})
             /\ UNCHANGED fs
          \/ \* a build succeeds: the story, the error page or the
             \* "No content found in document" page
             /\ WellFormed(fs, d.input_path)
             /\ \E page \in {"reportlab", "reportlab:error", "reportlab:nocontent"} :
                  fs' = Write(fs, out, Produced("pdf", d.input_path, page, 1))
             /\ dx' = [dx EXCEPT ![r] = ReturnPath(d, out, "manual")]
             /\ Touch(r, {out, d.input_path})
    /\ UNCHANGED <<lib, platform, req, zp>>

\* one step of the cascade, for the request that called it
DocxStep(r) ==
    \/ DxDocx2pdf(r)
    \/ DxWordCom(r)
    \/ DxPandocPdf(r)
    \/ DxHtmlStep1(r)
    \/ DxHtmlStep2(r)
    \/ DxPdfkit(r)
    \/ DxXhtml2pdf(r)
    \/ DxManual(r)

(***************************************************************************)
(* The single-shot converters (txt_to_pdf.py, image_to_pdf.py).            *)
(***************************************************************************)
\* txt_to_pdf.py lines 8-12, image_to_pdf.py lines 8-11
single_output_path(input_path, output_filename) ==
    IF output_filename # <<>>
    THEN join(dirname(input_path), output_filename)
    ELSE splitext(input_path)[1] \o <<".pdf">>

\* convert_txt_to_pdf / convert_image_to_pdf as one call: the input is read
\* and, unless reading it raises, the PDF is saved at the output path.
\* Result: <<file system, "returned" | "raised", output path>>
convert_single(f, input_path, output_filename, by) ==
    LET out == single_output_path(input_path, output_filename)
    IN IF WellFormed(f, input_path)
       THEN <<Write(f, out, Produced("pdf", input_path, by, 1)), "returned", out>>
       ELSE <<f, "raised", NoPath>>

(***************************************************************************)
(* handle_zip_file and merge_images_to_pdf (zip_handler.py).               *)
(***************************************************************************)
TMP == <<"", Sep, "tmp">>

\* tempfile.mkdtemp(prefix="convert_zip_"): a fresh directory per call
mkdtemp(r) == join(TMP, <<"convert_zip_", uuid4(r)>>)

DocExts == {".txt", ".docx"}
ImageExts == {".jpg", ".jpeg", ".png", ".bmp", ".gif", ".tiff"}

NoZip ==
    [pc |-> "none", temp_dir |-> NoPath, document_files |-> <<>>,
     image_files |-> <<>>, i |-> 1, status |-> <<>>, merged |-> "none",
     result |-> NoPath]

extract_dir(temp_dir) == join(temp_dir, <<"extracted">>)
pdf_output_dir(temp_dir) == join(temp_dir, <<"pdfs">>)

\* zip_ref.extractall: the members are written in archive order
RECURSIVE extractall(_, _, _)
extractall(f, dir, members) ==
    IF members = <<>> THEN f
    ELSE extractall(Write(f, join(dir, Head(members).name), Head(members).file),
                    dir, Tail(members))

\* the files below a directory
FilesUnder(f, dir) ==
    {p \in DOMAIN f : Len(p) > Len(dir) + 1 /\ SubSeq(p, 1, Len(dir) + 1) = dir \o <<Sep>>}

Depth(p) == Cardinality({i \in 1..Len(p) : p[i] = Sep})

\* os.walk (top-down): the files of a directory come before the files of its
\* sub-directories; within a directory the order is that of os.scandir, which
\* is not specified
WalkOrders(P, members, dir) ==
    {s \in [1..Cardinality(P) -> P] :
        /\ \A i, j \in DOMAIN s : i # j => s[i] # s[j]
        /\ \A i, j \in DOMAIN s : i < j => Depth(s[i]) <= Depth(s[j])}

\* lines 33-41: classification by lower-cased extension
IsDocument(p) == lower(splitext(basename(p))[2]) \in DocExts
IsImage(p) == lower(splitext(basename(p))[2]) \in ImageExts

document_files_of(walk) ==
    LET docs == SelectSeq(walk, IsDocument)
    IN [i \in DOMAIN docs |->
          [filename |-> basename(docs[i]), file_path |-> docs[i],
           ext |-> lower(splitext(basename(docs[i]))[2])]]
image_files_of(walk) ==
    LET imgs == SelectSeq(walk, IsImage)
    IN [i \in DOMAIN imgs |-> [filename |-> basename(imgs[i]), file_path |-> imgs[i]]]

\* lines 17-43: extraction and classification.  A corrupt archive makes
\* ZipFile raise.
ZipStart(r) ==
    /\ req[r].pc = "staged"
    /\ req[r].ext = ".zip"
    /\ LET q == req[r]
           temp_dir == mkdtemp(r)
           dir == extract_dir(temp_dir)
       IN IF ~WellFormed(fs, q.input_path)
          THEN /\ req' = [req EXCEPT ![r] =
                            [q EXCEPT !.pc = "in_zip", !.invoked = @ \cup {"zip"}]]
               /\ zp' = [zp EXCEPT ![r] =
                            [NoZip EXCEPT !.pc = "raised", !.temp_dir = temp_dir]]
               /\ Touch(r, {q.input_path})
               /\ UNCHANGED fs
          ELSE LET f1 == extractall(fs, dir, Content(fs, q.input_path).members)
                   P == FilesUnder(f1, dir)
               IN /\ fs' = f1
                  /\ \E walk \in WalkOrders(P, Content(fs, q.input_path).members, dir) :
                        zp' = [zp EXCEPT ![r] =
                                 [NoZip EXCEPT
                                    !.pc = "docs", !.temp_dir = temp_dir,
                                    !.document_files = document_files_of(walk),
                                    !.image_files = image_files_of(walk),
                                    !.status = [i \in DOMAIN document_files_of(walk) |-> "pending"]]]
                  /\ req' = [req EXCEPT ![r] =
                               [q EXCEPT !.pc = "in_zip", !.invoked = @ \cup {"zip"}]]
                  /\ Touch(r, {q.input_path} \cup P)
    /\ UNCHANGED <<lib, platform, dx>>

\* os.rename(src, dst): on Windows an existing destination raises
\* FileExistsError, elsewhere it is replaced.  <<file system, raised>>
rename(f, src, dst, pf) ==
    IF pf = "Windows" /\ Exists(f, dst)
    THEN <<f, TRUE>>
    ELSE <<Write(Remove(f, src), dst, Content(f, src)), FALSE>>

\* lines 57-63: the produced PDF is moved to the output directory under the
\* document's base name.  <<file system, status of the document>>
move_pdf(f, pdf_path, output_filename, temp_dir, pf) ==
    LET dest_path == join(pdf_output_dir(temp_dir), output_filename)
    IN IF pdf_path # NoPath /\ Exists(f, pdf_path)
       THEN IF abspath(pdf_path) # abspath(dest_path)
            THEN LET mv == rename(f, pdf_path, dest_path, pf)
                 IN <<mv[1], IF mv[2] THEN "failed_move" ELSE "moved">>
            ELSE <<f, "moved">>
       ELSE <<f, "not_created">>

\* lines 64-65: the handler of a failed document logs and goes on with the
\* next document
doc_failed_abort(z, st) == [z EXCEPT !.pc = "raised", !.status[z.i] = st]
doc_failed(z, st) == [z EXCEPT !.status[z.i] = st, !.i = @ + 1]
doc_done(z, st) == [z EXCEPT !.status[z.i] = st, !.i = @ + 1]

\* lines 46-65, one document: a TXT is converted in this step, a DOCX enters
\* the cascade
ZipDoc(r) ==
    /\ zp[r].pc = "docs"
    /\ zp[r].i <= Len(zp[r].document_files)
    /\ LET z == zp[r]
           doc == z.document_files[z.i]
           output_filename == splitext(doc.filename)[1] \o <<".pdf">>
       IN IF doc.ext = ".docx"
          THEN /\ dx' = [dx EXCEPT ![r] =
                           convert_docx_to_pdf(doc.file_path, output_filename, platform)]
               /\ zp' = [zp EXCEPT ![r] = [z EXCEPT !.pc = "in_docx"]]
               /\ UNCHANGED <<fs, acc>>
          ELSE LET res == convert_single(fs, doc.file_path, output_filename, "txt")
                   mv == move_pdf(res[1], res[3], output_filename, z.temp_dir, platform)
               IN /\ IF res[2] = "returned"
                     THEN /\ fs' = mv[1]
                          /\ zp' = [zp EXCEPT ![r] =
                                      IF mv[2] = "failed_move"
                                      THEN doc_failed(z, "failed_move")
                                      ELSE doc_done(z, mv[2])]
                     ELSE /\ fs' = res[1]
                          /\ zp' = [zp EXCEPT ![r] = doc_failed(z, "failed")]
                  /\ Touch(r, {doc.file_path,
                               single_output_path(doc.file_path, output_filename),
                               join(pdf_output_dir(z.temp_dir), output_filename)})
                  /\ UNCHANGED dx
    /\ UNCHANGED <<lib, platform, req>>

\* lines 52-65: the cascade returned a path, or raised
ZipDocxDone(r) ==
    /\ zp[r].pc = "in_docx"
    /\ dx[r].pc \in {"returned", "raised"}
    /\ LET z == [zp[r] EXCEPT !.pc = "docs"]
           doc == z.document_files[z.i]
           output_filename == splitext(doc.filename)[1] \o <<".pdf">>
           mv == move_pdf(fs, dx[r].result, output_filename, z.temp_dir, platform)
       IN /\ IF dx[r].pc = "returned"
             THEN /\ fs' = mv[1]
                  /\ zp' = [zp EXCEPT ![r] =
                              IF mv[2] = "failed_move"
                              THEN doc_failed(z, "failed_move")
                              ELSE doc_done(z, mv[2])]
             ELSE /\ fs' = fs
                  /\ zp' = [zp EXCEPT ![r] = doc_failed(z, "failed")]
          /\ Touch(r, {dx[r].output_path, join(pdf_output_dir(z.temp_dir), output_filename)})
    /\ dx' = [dx EXCEPT ![r] = [@ EXCEPT !.pc = "none"]]
    /\ UNCHANGED <<lib, platform, req>>

\* a PDF of several pages: the pages are the image files drawn, in order
MergedPdf(pages) ==
    [kind |-> "pdf", ok |-> TRUE, size |-> 1, src |-> <<>>, by |-> "merge",
     members |-> pages, entries |-> {}]

\* lines 112-149: the images that are drawn, in the order of image_files; an
\* image that cannot be opened is skipped
RECURSIVE merge_pages(_, _)
merge_pages(f, image_files) ==
    IF image_files = <<>> THEN <<>>
    ELSE (IF WellFormed(f, Head(image_files).file_path)
          THEN <<Head(image_files).file_path>> ELSE <<>>)
         \o merge_pages(f, Tail(image_files))

\* merge_images_to_pdf (lines 90-152).  The first image is opened outside the
\* try block of the loop (line 99): if that raises, the function raises and
\* no PDF is written.  <<file system, raised>>
merge_images_to_pdf(f, image_files, output_path) ==
    IF ~WellFormed(f, image_files[1].file_path)
    THEN <<f, TRUE>>
    ELSE <<Write(f, output_path, MergedPdf(merge_pages(f, image_files))), FALSE>>

\* lines 67-75: all images are merged into images_merged.pdf
ZipMerge(r) ==
    /\ zp[r].pc = "docs"
    /\ zp[r].i > Len(zp[r].document_files)
    /\ LET z == zp[r]
           images_pdf_path == join(pdf_output_dir(z.temp_dir), <<"images_merged", ".pdf">>)
       IN IF z.image_files # <<>>
          THEN LET m == merge_images_to_pdf(fs, z.image_files, images_pdf_path)
               IN /\ fs' = m[1]
                  /\ zp' = [zp EXCEPT ![r] =
                              [z EXCEPT !.pc = "zipout",
                                        !.merged = IF m[2] THEN "failed" ELSE "merged"]]
                  /\ Touch(r, {images_pdf_path}
                              \cup {z.image_files[k].file_path : k \in DOMAIN z.image_files})
          ELSE /\ zp' = [zp EXCEPT ![r] = [z EXCEPT !.pc = "zipout"]]
               /\ UNCHANGED <<fs, acc>>
    /\ UNCHANGED <<lib, platform, req, dx>>

\* the archive written at lines 78-83: one entry per file of the output
\* directory, named by the file name alone
OutputZip(f, dir) ==
    [kind |-> "zip", ok |-> TRUE, size |-> 1, src |-> <<>>, by |-> "zip",
     members |-> <<>>,
     entries |-> {[name |-> basename(p), file |-> f[p]] : p \in FilesUnder(f, abspath(dir))}]

\* lines 77-87: the output archive is written and its path returned
ZipOut(r) ==
    /\ zp[r].pc = "zipout"
    /\ req[r].pc = "in_zip"
    /\ LET z == zp[r]
           output_zip_path == join(z.temp_dir, <<"converted_files", ".zip">>)
       IN /\ fs' = Write(fs, output_zip_path, OutputZip(fs, pdf_output_dir(z.temp_dir)))
          /\ zp' = [zp EXCEPT ![r] = [z EXCEPT !.pc = "returned", !.result = output_zip_path]]
          \* main.py lines 49-50
          /\ req' = [req EXCEPT ![r] =
                       [@ EXCEPT !.pc = "converted", !.output_path = output_zip_path,
                                 !.output_filename = basename(output_zip_path)]]
          /\ Touch(r, {output_zip_path} \cup FilesUnder(fs, abspath(pdf_output_dir(z.temp_dir))))
    /\ UNCHANGED <<lib, platform, dx>>

\* an exception that leaves handle_zip_file reaches the endpoint (line 49)
ZipRaised(r) ==
    /\ zp[r].pc = "raised"
    /\ req[r].pc = "in_zip"
    /\ req' = [req EXCEPT ![r] =
                 [@ EXCEPT !.pc = "raised",
                           !.exc = [type |-> "Exception", status |-> 0,
                                    detail |-> <<"zip failed">>]]]
    /\ zp' = [zp EXCEPT ![r] = [@ EXCEPT !.pc = "failed"]]
    /\ UNCHANGED <<lib, platform, fs, dx, acc>>

(***************************************************************************)
(* POST /convert-to-pdf (main.py, convert_file).                           *)
(***************************************************************************)
NoExc == [type |-> "none", status |-> 0, detail |-> <<>>]
HTTPException(status, detail) ==
    [type |-> "HTTPException", status |-> status, detail |-> detail]
Exception(detail) == [type |-> "Exception", status |-> 0, detail |-> detail]

NoResponse ==
    [status |-> 0, detail |-> <<>>, path |-> NoPath, filename |-> <<>>,
     body |-> "none"]

NewRequest(filename, upload) ==
    [pc |-> "idle", filename |-> filename, upload |-> upload, ext |-> "",
     file_id |-> "", input_path |-> NoPath, output_filename |-> <<>>,
     output_path |-> NoPath, exc |-> NoExc, response |-> NoResponse,
     outcome |-> "none", invoked |-> {}]

NoRequest == [NewRequest(<<>>, Upload(TRUE, <<>>)) EXCEPT !.pc = "absent"]

\* line 27
staged_input_path(file_id, filename) ==
    join(UPLOAD_DIR, <<file_id, "_">> \o filename)

\* lines 30-31
pdf_output_filename(filename) == splitext(filename)[1] \o <<".pdf">>

\* str(e) of the exception caught at line 65.  For an HTTPException it is
\* "<status>: <detail>" or the empty string, depending on the installed
\* Starlette release.
StrExc(e) ==
    IF e.type = "HTTPException"
    THEN {<<>>, <<"status", ": ">> \o e.detail}
    ELSE {e.detail}

\* lines 24-39: the upload is staged under the generated identifier
Stage(r) ==
    /\ req[r].pc = "idle"
    /\ LET q == req[r]
           file_id == uuid4(r)
           input_path == staged_input_path(file_id, q.filename)
           q1 == [q EXCEPT !.ext = get_file_extension(q.filename),
                           !.file_id = file_id,
                           !.input_path = input_path,
                           !.output_filename = pdf_output_filename(q.filename)]
       IN /\ \/ /\ fs' = Write(fs, input_path, q.upload)
                /\ req' = [req EXCEPT ![r] = [q1 EXCEPT !.pc = "staged"]]
             \/ \* copying the upload raises, outside the try block
                /\ fs' = Write(fs, input_path, [q.upload EXCEPT !.size = 0, !.ok = FALSE])
                /\ req' = [req EXCEPT ![r] =
                             [q1 EXCEPT !.pc = "done", !.outcome = "stage_error",
                                        !.response = [NoResponse EXCEPT !.status = 500]]]
          /\ Touch(r, {input_path})
    /\ UNCHANGED <<lib, platform, dx, zp>>

\* lines 41-52: the converter is chosen by extension
Dispatch(r) ==
    /\ req[r].pc = "staged"
    /\ req[r].ext # ".zip"
    /\ LET q == req[r]
       IN CASE q.ext = ".docx" ->
                 /\ dx' = [dx EXCEPT ![r] =
                             convert_docx_to_pdf(q.input_path, q.output_filename, platform)]
                 /\ req' = [req EXCEPT ![r] =
                              [q EXCEPT !.pc = "in_docx", !.invoked = @ \cup {"docx"}]]
                 /\ UNCHANGED <<fs, acc>>
            [] q.ext \in {".txt", ".jpg", ".jpeg", ".png"} ->
                 LET by == IF q.ext = ".txt" THEN "txt" ELSE "image"
                     res == convert_single(fs, q.input_path, q.output_filename, by)
                 IN /\ fs' = res[1]
                    /\ req' = [req EXCEPT ![r] =
                                 IF res[2] = "returned"
                                 THEN [q EXCEPT !.pc = "converted", !.output_path = res[3],
                                                !.invoked = @ \cup {by}]
                                 ELSE [q EXCEPT !.pc = "raised", !.invoked = @ \cup {by},
                                                !.exc = Exception(<<by, " failed">>)]]
                    /\ Touch(r, {q.input_path, single_output_path(q.input_path, q.output_filename)})
                    /\ UNCHANGED dx
            [] OTHER ->
                 /\ req' = [req EXCEPT ![r] =
                              [q EXCEPT !.pc = "raised",
                                        !.exc = HTTPException(400,
                                                   <<"Unsupported file type: ", q.ext>>)]]
                 /\ UNCHANGED <<fs, dx, acc>>
    /\ UNCHANGED <<lib, platform, zp>>

\* line 43: convert_docx_to_pdf returned a path or raised
DocxDone(r) ==
    /\ req[r].pc = "in_docx"
    /\ dx[r].pc \in {"returned", "raised"}
    /\ req' = [req EXCEPT ![r] =
                 IF dx[r].pc = "returned"
                 THEN [@ EXCEPT !.pc = "converted", !.output_path = dx[r].result]
                 ELSE [@ EXCEPT !.pc = "raised", !.exc = Exception(<<"docx failed">>)]]
    /\ dx' = [dx EXCEPT ![r] = [@ EXCEPT !.pc = "none"]]
    /\ UNCHANGED <<lib, platform, fs, zp, acc>>

\* lines 68-72: the finally block
finally_skip(f, input_path) == f
finally(f, input_path) == RemoveIfExists(f, input_path)

\* lines 65-67: every exception raised in the try block, the HTTPException of
\* line 52 included, is answered with status 500
except(e, text) == HTTPException(500, <<"Conversion failed: ">> \o text)

\* lines 54-72: output check, response, except and finally
Finish(r) ==
    /\ req[r].pc \in {"converted", "raised"}
    /\ LET q == req[r]
           e == IF q.pc = "raised" THEN q.exc
                ELSE IF ~Exists(fs, q.output_path)
                     THEN HTTPException(500, <<"Conversion failed: output file not created">>)
                     ELSE NoExc
           outcome == IF e = NoExc THEN "success"
                      ELSE IF e.status = 400 THEN "unsupported" ELSE "conversion_error"
       IN /\ IF e = NoExc
             THEN req' = [req EXCEPT ![r] =
                            [q EXCEPT !.pc = "responding", !.outcome = outcome,
                                      !.response = [NoResponse EXCEPT
                                           !.status = 200, !.path = q.output_path,
                                           !.filename = q.output_filename]]]
             ELSE \E text \in StrExc(e) :
                    LET h == except(e, text)
                    IN req' = [req EXCEPT ![r] =
                                 [q EXCEPT !.pc = "done", !.outcome = outcome, !.exc = h,
                                           !.response = [NoResponse EXCEPT
                                                !.status = h.status, !.detail = h.detail]]]
          /\ fs' = finally(fs, q.input_path)
          /\ Touch(r, {q.input_path})
    /\ UNCHANGED <<lib, platform, dx, zp>>

\* line 64: FileResponse reads the file at output_path when the response is
\* sent, after the handler has returned
SendFile(r) ==
    /\ req[r].pc = "responding"
    /\ LET q == req[r]
       IN /\ req' = [req EXCEPT ![r] =
                       [q EXCEPT !.pc = "done",
                                 !.response = [@ EXCEPT !.body =
                                     IF Exists(fs, q.output_path)
                                     THEN Content(fs, q.output_path).by
                                     ELSE "missing"]]]
          /\ Touch(r, {q.output_path})
    /\ UNCHANGED <<lib, platform, fs, dx, zp>>

(***************************************************************************)
(* The manual layout renderer: paragraphs, tables and final assembly       *)
(* (docx_to_pdf.py lines 496-665).  A text is a sequence of characters.    *)
(***************************************************************************)
IsAscii(c) == c \in {"a", " ", "<", "&", ">", "|"}

\* str.strip()
Whitespace == {" ", "\n"}
RECURSIVE lstrip(_)
lstrip(t) == IF t # <<>> /\ Head(t) \in Whitespace THEN lstrip(Tail(t)) ELSE t
RECURSIVE rstrip(_)
rstrip(t) ==
    IF t # <<>> /\ t[Len(t)] \in Whitespace THEN rstrip(SubSeq(t, 1, Len(t) - 1)) ELSE t
strip(t) == rstrip(lstrip(t))

\* lines 509, 576, 639: the XML special characters are escaped
escape(t) ==
    [i \in DOMAIN t |->
        CASE t[i] = "&" -> "&amp;" [] t[i] = "<" -> "&lt;" [] t[i] = ">" -> "&gt;"
          [] OTHER -> t[i]]

\* line 546: text_content.encode('ascii', 'ignore').decode('ascii')
ascii_ignore(t) == SelectSeq(t, IsAscii)

Marker == " [Some characters could not be displayed]"

\* the flowables appended to the story
Flowable(kind, text, style, origin, i, j, data) ==
    [kind |-> kind, text |-> text, style |-> style, origin |-> origin,
     i |-> i, j |-> j, data |-> data]
Spacer(h) == Flowable("Spacer", <<>>, h, "spacer", 0, 0, <<>>)
ParagraphOf(text, style, origin, i, j) ==
    Flowable("Paragraph", text, style, origin, i, j, <<>>)

\* lines 503-506: the style of a paragraph
chosen_style(para) == IF para.heading THEN "CustomHeading" ELSE "CustomBody"

\* lines 499-553, one paragraph.  para.fails is the number of leading tiers
\* whose Paragraph() raises.  <<flowables appended, tiers tried>>
render_paragraph_two_tiers(para, idx) ==
    LET text_content == strip(para.text)
        text == escape(text_content)
    IN IF text_content = <<>> THEN <<<<>>, <<>>>>
       ELSE IF para.fails = 0
       THEN <<<<ParagraphOf(text, chosen_style(para), "para", idx, 1),
                Spacer("0.15in")>>, <<1>>>>
       ELSE IF para.fails = 1
       THEN <<<<ParagraphOf(text, "SimpleStyle", "para", idx, 2),
                Spacer("0.15in")>>, <<1, 2>>>>
       ELSE <<<<>>, <<1, 2>>>>
render_paragraph(para, idx) ==
    LET text_content == strip(para.text)
        text == escape(text_content)
        safe_text == ascii_ignore(text_content)
    IN IF text_content = <<>> THEN <<<<>>, <<>>>>
       ELSE IF para.fails = 0
       THEN <<<<ParagraphOf(text, chosen_style(para), "para", idx, 1),
                Spacer("0.15in")>>, <<1>>>>
       ELSE IF para.fails = 1
       THEN <<<<ParagraphOf(text, "SimpleStyle", "para", idx, 2),
                Spacer("0.15in")>>, <<1, 2>>>>
       ELSE IF safe_text = <<>>
       THEN <<<<>>, <<1, 2>>>>
       ELSE IF para.fails = 2
       THEN <<<<ParagraphOf(safe_text \o <<Marker>>, "CustomBody", "para", idx, 3),
                Spacer("0.15in")>>, <<1, 2, 3>>>>
       ELSE <<<<>>, <<1, 2, 3>>>>

\* lines 559-563: the maximum column count over all rows
RECURSIVE max_cols_of(_)
max_cols_of(rows) ==
    IF rows = <<>> THEN 0
    ELSE LET m == max_cols_of(Tail(rows))
             n == Len(Head(rows).cells)
         IN IF n > m THEN n ELSE m

\* lines 571-587: the value of an existing cell
cell_value(cell_text, cell_fails) ==
    IF strip(cell_text) = <<>> THEN [kind |-> "str", text |-> <<>>]
    ELSE IF cell_fails THEN [kind |-> "str", text |-> escape(strip(cell_text))]
    ELSE [kind |-> "Paragraph", text |-> escape(strip(cell_text))]

EmptyCell == [kind |-> "str", text |-> <<>>]

\* lines 566-591: one row of table_data, padded to max_cols with ''
row_data_nopad(row, max_cols, cell_fails) ==
    [col_idx \in 1..Len(row.cells) |-> cell_value(row.cells[col_idx], cell_fails)]
row_data(row, max_cols, cell_fails) ==
    [col_idx \in 1..max_cols |->
        IF col_idx <= Len(row.cells)
        THEN cell_value(row.cells[col_idx], cell_fails)
        ELSE EmptyCell]

\* "if cell": a Paragraph is truthy, the empty string is not
CellTruthy(c) == c.kind = "Paragraph" \/ c.text # <<>>

\* ' | '.join(row_texts)
RECURSIVE join_pipe(_)
join_pipe(texts) ==
    IF texts = <<>> THEN <<>>
    ELSE IF Len(texts) = 1 THEN texts[1]
    ELSE texts[1] \o <<" ", "|", " ">> \o join_pipe(Tail(texts))

\* line 636: the stripped texts of the non-empty cells of a row
row_texts_of(row) ==
    LET ne == SelectSeq(row.cells, LAMBDA c : strip(c) # <<>>)
    IN [k \in DOMAIN ne |-> strip(ne[k])]

\* lines 635-645: the text fallback, row by row; a row without text and a row
\* whose Paragraph() raises are skipped
RECURSIVE fallback_rows(_, _, _)
fallback_rows(rows, table_idx, row_idx) ==
    IF rows = <<>> THEN <<>>
    ELSE (IF row_texts_of(Head(rows)) # <<>> /\ ~Head(rows).bad
          THEN <<ParagraphOf(escape(join_pipe(row_texts_of(Head(rows)))),
                             "CustomBody", "row", table_idx, row_idx),
                 Spacer("0.05in")>>
          ELSE <<>>)
         \o fallback_rows(Tail(rows), table_idx, row_idx + 1)

\* lines 556-649, one table.  table.hazard = "construct" makes Table() raise.
render_table(table, table_idx) ==
    LET max_cols == max_cols_of(table.rows)
        table_data == [k \in DOMAIN table.rows |->
                          row_data(table.rows[k], max_cols, table.cell_fails)]
        has_data == \E k \in DOMAIN table_data :
                       \E c \in DOMAIN table_data[k] : CellTruthy(table_data[k][c])
    IN IF ~has_data THEN <<>>
       ELSE IF table.hazard = "none"
       THEN <<Spacer("0.2in"),
              Flowable("Table", <<>>, "grid", "table", table_idx, max_cols, table_data),
              Spacer("0.3in")>>
       ELSE <<Spacer("0.1in"),
              ParagraphOf(<<"<b>", "Table ", "N", ":", "</b>">>, "CustomHeading",
                          "table_title", table_idx, 0)>>
            \o fallback_rows(table.rows, table_idx, 1)
            \o <<Spacer("0.2in")>>

NoRender ==
    [pc |-> "idle", ok |-> TRUE, paragraphs |-> <<>>, tables |-> <<>>, k |-> 1,
     t |-> 1, story |-> <<>>, tried |-> <<>>, pdf |-> "none", result |-> "none"]

\* line 366: Document(input_path)
MrOpen ==
    /\ mr.pc = "open"
    /\ mr' = [mr EXCEPT !.pc = IF mr.ok THEN "paragraphs" ELSE "raised"]
    /\ UNCHANGED <<platform, fs, req, dx, zp, acc, fonts, tx, pi>>

\* lines 499-553: the next paragraph
MrParagraph ==
    /\ mr.pc = "paragraphs"
    /\ mr.k <= Len(mr.paragraphs)
    /\ LET res == render_paragraph(mr.paragraphs[mr.k], mr.k)
       IN mr' = [mr EXCEPT !.story = @ \o res[1], !.tried = Append(@, res[2]),
                           !.k = @ + 1]
    /\ UNCHANGED <<platform, fs, req, dx, zp, acc, fonts, tx, pi>>

\* lines 556-649: the next table, once the paragraphs are done
MrTable ==
    /\ mr.pc = "paragraphs"
    /\ mr.k > Len(mr.paragraphs)
    /\ mr.t <= Len(mr.tables)
    /\ mr' = [mr EXCEPT !.story = @ \o render_table(mr.tables[mr.t], mr.t),
                        !.t = @ + 1]
    /\ UNCHANGED <<platform, fs, req, dx, zp, acc, fonts, tx, pi>>

\* lines 651-665: final assembly.  Only the first build of a non-empty story
\* is inside a try block.
MrBuild ==
    /\ mr.pc = "paragraphs"
    /\ mr.k > Len(mr.paragraphs)
    /\ mr.t > Len(mr.tables)
    /\ IF mr.story # <<>>
       THEN \/ mr' = [mr EXCEPT !.pc = "returned", !.pdf = "story",
                                !.result = "output_path"]
            \/ \* pdf.build(story) raises, the error page is built
               mr' = [mr EXCEPT !.pc = "returned", !.pdf = "error",
                                !.result = "output_path"]
            \/ \* the build of the error page raises as well
               mr' = [mr EXCEPT !.pc = "raised", !.pdf = "none"]
       ELSE \/ mr' = [mr EXCEPT !.pc = "returned", !.pdf = "nocontent",
                                !.result = "output_path"]
            \/ \* the build of the "No content found in document" page raises
               mr' = [mr EXCEPT !.pc = "raised", !.pdf = "none"]
    /\ UNCHANGED <<platform, fs, req, dx, zp, acc, fonts, tx, pi>>

\* the documents the renderer is run on
MaxParas == 2
MaxRows == 2
MaxCols == 2

Texts == {<<>>, <<" ">>, <<"a", "<">>, <<"a", "U0939">>, <<"U0939">>}

Paras ==
    {[text |-> t, heading |-> h, fails |-> n] :
        t \in Texts, h \in BOOLEAN, n \in 0..3}

ParaSet ==
    {p \in Paras : /\ (p.heading => p.fails = 0)
                   /\ (strip(p.text) = <<>> => (~p.heading /\ p.fails = 0))}

SeqsUpTo(S, n) == UNION {[1..m -> S] : m \in 0..n}

CellTexts == {<<>>, <<"a">>}

Rows ==
    {[cells |-> c, bad |-> b] : c \in SeqsUpTo(CellTexts, MaxCols), b \in BOOLEAN}

RowSet == {w \in Rows : w.bad => row_texts_of(w) # <<>>}

Tables ==
    {[rows |-> rs, hazard |-> h, cell_fails |-> FALSE] :
        rs \in SeqsUpTo(RowSet, MaxRows), h \in {"none", "construct"}}
    \cup {[rows |-> <<[cells |-> <<<<"a">>, <<>>>>, bad |-> FALSE],
                   [cells |-> <<<<"a">>>>, bad |-> FALSE]>>,
           hazard |-> "none", cell_fails |-> TRUE]}

PlainParas == {[text |-> t, heading |-> FALSE, fails |-> 0] : t \in {<<>>, <<"a", "<">>}}

Documents ==
    {[ok |-> TRUE, paragraphs |-> ps, tables |-> <<>>] : ps \in SeqsUpTo(ParaSet, MaxParas)}
    \cup {[ok |-> TRUE, paragraphs |-> ps, tables |-> <<tb>>] :
             ps \in SeqsUpTo(PlainParas, 1), tb \in Tables}
    \cup {[ok |-> FALSE, paragraphs |-> <<>>, tables |-> <<>>]}

(***************************************************************************)
(* pdf_to_images_zip (pdf_to_images.py), called by the /pdf-to-images       *)
(* endpoint (main.py lines 74-103).                                         *)
(***************************************************************************)
DigitChars == <<"0", "1", "2", "3", "4", "5", "6", "7", "8", "9">>

\* str(n) for n >= 0
RECURSIVE decimal(_)
decimal(n) ==
    IF n < 10 THEN <<DigitChars[n + 1]>>
    ELSE decimal(n \div 10) \o <<DigitChars[(n % 10) + 1]>>

\* the format specification 03d: zero-padded to a width of at least 3
MinWidth == 3
format_03d(n) ==
    LET d == decimal(n)
    IN IF Len(d) >= MinWidth THEN d ELSE [k \in 1..(MinWidth - Len(d)) |-> "0"] \o d

\* image_format.lower()
fmt_lower(fmt) == IF fmt = "PNG" THEN "png" ELSE fmt

\* lines 14-15: the name and the path of the image of page i (i counts from 0)
img_name(i, image_format) ==
    <<"page_">> \o format_03d(i + 1) \o <<".", fmt_lower(image_format)>>
img_path(output_dir, i, image_format) == join(output_dir, img_name(i, image_format))

PageImage(i) ==
    [kind |-> "image", ok |-> TRUE, size |-> 1, src |-> <<>>, by |-> "page",
     members |-> <<i>>, entries |-> {}]

\* the page a path built by img_path belongs to
DigitValue(c) == (CHOOSE d \in 1..10 : DigitChars[d] = c) - 1
RECURSIVE number(_)
number(d) ==
    IF d = <<>> THEN 0 ELSE 10 * number(SubSeq(d, 1, Len(d) - 1)) + DigitValue(d[Len(d)])
page_of(q) == number(SubSeq(basename(q), 2, Len(basename(q)) - 2)) - 1

\* lines 13-17: the file system once the first m pages are saved
saved_pages(f, output_dir, m, image_format) ==
    LET P == {abspath(img_path(output_dir, i, image_format)) : i \in 0..(m - 1)}
    IN [q \in DOMAIN f \cup P |->
           IF q \in DOMAIN f /\ f[q].kind # "image" THEN f[q] ELSE PageImage(page_of(q))]

\* lines 21-24: the archive holds one entry per path of image_paths, in order
ImagesZip(f, image_paths) ==
    [kind |-> "zip", ok |-> TRUE, size |-> 1, src |-> <<>>, by |-> "zipfile",
     members |-> [k \in DOMAIN image_paths |->
                     [name |-> basename(image_paths[k]),
                      file |-> f[abspath(image_paths[k])]]],
     entries |-> {}]

NoImages ==
    [pc |-> "idle", pdf_ok |-> TRUE, n |-> 0, image_format |-> "png",
     cleanup |-> TRUE, output_dir |-> <<>>, image_paths |-> <<>>,
     zip_filename |-> <<>>, result |-> "none"]

\* main.py line 89: the output directory of the request
images_output_dir(r) == join(UPLOAD_DIR, <<uuid4(r), "_images">>)

\* lines 7-10: the pages are rendered; a PDF that cannot be read raises
PiConvert ==
    /\ pi.pc = "start"
    /\ pi' = [pi EXCEPT !.pc = IF pi.pdf_ok THEN "save" ELSE "raised"]
    /\ UNCHANGED <<platform, fs, req, dx, zp, acc, mr, fonts, tx>>

\* lines 13-17: every page is saved under its name; page.save may raise, at
\* the first or at the last page
PiSavePages ==
    /\ pi.pc = "save"
    /\ \/ /\ fs' = saved_pages(fs, pi.output_dir, pi.n, pi.image_format)
          /\ pi' = [pi EXCEPT !.pc = "zip",
                       !.image_paths = [k \in 1..pi.n |->
                           img_path(pi.output_dir, k - 1, pi.image_format)]]
       \/ /\ pi.n > 0
          /\ \E m \in {0, pi.n - 1} :
               /\ fs' = saved_pages(fs, pi.output_dir, m, pi.image_format)
               /\ pi' = [pi EXCEPT !.pc = "raised",
                            !.image_paths = [k \in 1..m |->
                                img_path(pi.output_dir, k - 1, pi.image_format)]]
    /\ UNCHANGED <<platform, req, dx, zp, acc, mr, fonts, tx>>

\* lines 20-24: the archive is written next to the images
PiZip ==
    /\ pi.pc = "zip"
    /\ LET zip_filename == join(pi.output_dir, <<"converted_images", ".zip">>)
       IN \/ /\ fs' = Write(fs, zip_filename, ImagesZip(fs, pi.image_paths))
             /\ pi' = [pi EXCEPT !.pc = "cleanup", !.zip_filename = zip_filename]
          \/ /\ pi' = [pi EXCEPT !.pc = "raised"]
             /\ fs' = fs
    /\ UNCHANGED <<platform, req, dx, zp, acc, mr, fonts, tx>>

\* lines 27-37: the page images are removed when cleanup is requested
PiCleanup ==
    /\ pi.pc = "cleanup"
    /\ fs' = IF pi.cleanup
             THEN [q \in DOMAIN fs \ {abspath(pi.image_paths[k]) : k \in DOMAIN pi.image_paths}
                      |-> fs[q]]
             ELSE fs
    /\ pi' = [pi EXCEPT !.pc = "returned", !.result = "zip_file"]
    /\ UNCHANGED <<platform, req, dx, zp, acc, mr, fonts, tx>>

\* the page counts of the source PDFs: short ones, and the counts around the
\* padding width
MaxPages == 2
PageCounts == 0..MaxPages \cup {999, 1000}
ImageFormats == {"png", "PNG", "jpeg"}

(***************************************************************************)
(* Font resolution of the manual renderer (docx_to_pdf.py lines 369-467).  *)
(***************************************************************************)
Font(file, ext, font_name) ==
    [font_path |-> <<"C:/Windows/Fonts/", file, ext>>, font_name |-> font_name]

\* lines 377-399
font_mappings ==
    [hindi |-> <<Font("Nirmala", ".ttf", "NirmalaFont"),
                 Font("mangal", ".ttf", "MangalFont"),
                 Font("NotoSansDevanagari-Regular", ".ttf", "NotoDevanagariFont")>>,
     arabic |-> <<Font("tahoma", ".ttf", "TahomaFont"),
                  Font("TraditionalArabic", ".ttf", "TraditionalArabicFont"),
                  Font("ArabicTypesetting", ".ttf", "ArabicTypesettingFont")>>,
     chinese |-> <<Font("simsun", ".ttc", "SimSunFont"),
                   Font("msyh", ".ttc", "YaHeiFont"),
                   Font("SimsunExtG", ".ttf", "SimSunExtFont"),
                   Font("simsunb", ".ttf", "SimSunBFont")>>,
     universal |-> <<Font("arial", ".ttf", "ArialFont"),
                     Font("segoeui", ".ttf", "SegoeFont"),
                     Font("calibri", ".ttf", "CalibriFont")>>]

Categories == {"hindi", "arabic", "chinese", "universal"}

\* font_path.endswith('.ttc')
endswith_ttc(font_path) == font_path[Len(font_path)] = ".ttc"

\* one "for font_path, font_name in ...: try: registerFont ... break" loop over
\* the candidates cands; avail holds the font names whose registerFont
\* succeeds on the host.  <<names passed to registerFont, name bound or "">>
RECURSIVE probe_last(_, _)
probe_last(cands, avail) ==
    IF cands = <<>> THEN <<<<>>, "">>
    ELSE LET rest == probe_last(Tail(cands), avail)
             name == Head(cands).font_name
         IN <<<<name>> \o rest[1],
              IF rest[2] # "" THEN rest[2] ELSE IF name \in avail THEN name ELSE "">>
RECURSIVE probe(_, _)
probe(cands, avail) ==
    IF cands = <<>> THEN <<<<>>, "">>
    ELSE LET name == Head(cands).font_name
         IN IF name \in avail THEN <<<<name>>, name>>
            ELSE LET rest == probe(Tail(cands), avail)
                 IN <<<<name>> \o rest[1], rest[2]>>

\* line 435: the candidates of the Chinese loop that are not skipped
not_ttc(cands) == SelectSeq(cands, LAMBDA c : ~endswith_ttc(c.font_path))

NoFonts ==
    [pc |-> "idle", avail |-> {}, probed |-> <<>>,
     registered_fonts |-> [c \in Categories |-> ""],
     font_registered |-> FALSE, main_font |-> ""]

\* lines 404-446: one of the three script loops
script_loop(fo, category, cands, next) ==
    LET res == probe(cands, fo.avail)
    IN [fo EXCEPT !.pc = next,
                  !.probed = @ \o res[1],
                  !.registered_fonts[category] = res[2],
                  !.main_font = IF res[2] # "" /\ ~fo.font_registered THEN res[2] ELSE @,
                  !.font_registered = @ \/ res[2] # ""]

\* lines 403-415
FontsHindi ==
    /\ fonts.pc = "hindi"
    /\ fonts' = script_loop(fonts, "hindi", font_mappings.hindi, "arabic")
    /\ UNCHANGED <<platform, fs, req, dx, zp, acc, mr, tx, pi>>

\* lines 417-429
FontsArabic ==
    /\ fonts.pc = "arabic"
    /\ fonts' = script_loop(fonts, "arabic", font_mappings.arabic, "chinese")
    /\ UNCHANGED <<platform, fs, req, dx, zp, acc, mr, tx, pi>>

\* lines 431-446: the .ttc candidates are skipped
FontsChinese ==
    /\ fonts.pc = "chinese"
    /\ fonts' = script_loop(fonts, "chinese", not_ttc(font_mappings.chinese), "universal")
    /\ UNCHANGED <<platform, fs, req, dx, zp, acc, mr, tx, pi>>

\* lines 448-459: the universal fonts are tried only when nothing registered
FontsUniversal ==
    /\ fonts.pc = "universal"
    /\ fonts' = IF ~fonts.font_registered
                THEN script_loop(fonts, "universal", font_mappings.universal, "default")
                ELSE [fonts EXCEPT !.pc = "default"]
    /\ UNCHANGED <<platform, fs, req, dx, zp, acc, mr, tx, pi>>

\* lines 465-467
FontsDefault ==
    /\ fonts.pc = "default"
    /\ fonts' = [fonts EXCEPT !.pc = "done",
                              !.main_font = IF ~fonts.font_registered THEN "Helvetica" ELSE @]
    /\ UNCHANGED <<platform, fs, req, dx, zp, acc, mr, tx, pi>>

\* the fonts a host may hold
FontNames ==
    UNION {{font_mappings[c][k].font_name : k \in DOMAIN font_mappings[c]} : c \in Categories}

(***************************************************************************)
(* convert_txt_to_pdf (txt_to_pdf.py).                                      *)
(***************************************************************************)
\* line 30 and lines 32-35, 44
X == 50
TopY == 750
BottomMargin == 50
LineHeight == 15

Placeholder == <<"Unable to render line">>

NoTxt ==
    [pc |-> "idle", readable |-> TRUE, font_name |-> "", text |-> <<>>, i |-> 1,
     y |-> 0, page |-> 1, drawn |-> <<>>]

\* line 32: a new page is needed
needs_page_late(y) == y < 0
needs_page(y) == y < BottomMargin

\* lines 36-43: what ends up drawn for a line.  drawString raises for the
\* text of a bad line, and again for the same text re-encoded; the
\* placeholder is then drawn in its place.
draw_line(line) == IF line.bad THEN Placeholder ELSE strip(line.text)

\* lines 14-22: the Unicode font, or Helvetica when it cannot be registered
TxFont ==
    /\ tx.pc = "font"
    /\ \E f \in {"UniFont", "Helvetica"} : tx' = [tx EXCEPT !.pc = "open", !.font_name = f]
    /\ UNCHANGED <<platform, fs, req, dx, zp, acc, mr, fonts, pi>>

\* lines 24-30: the canvas is created and the lines are read
TxOpen ==
    /\ tx.pc = "open"
    /\ tx' = IF tx.readable THEN [tx EXCEPT !.pc = "lines", !.y = TopY]
             ELSE [tx EXCEPT !.pc = "raised"]
    /\ UNCHANGED <<platform, fs, req, dx, zp, acc, mr, fonts, pi>>

\* lines 31-44: one iteration of the loop over the lines
TxLine ==
    /\ tx.pc = "lines"
    /\ tx.i <= Len(tx.text)
    /\ LET brk == needs_page(tx.y)
           y == IF brk THEN TopY ELSE tx.y
           page == IF brk THEN tx.page + 1 ELSE tx.page
       IN tx' = [tx EXCEPT !.page = page,
                           !.drawn = Append(@, [line |-> tx.i, page |-> page, x |-> X,
                                                y |-> y, text |-> draw_line(tx.text[tx.i])]),
                           !.y = y - LineHeight,
                           !.i = @ + 1]
    /\ UNCHANGED <<platform, fs, req, dx, zp, acc, mr, fonts, pi>>

\* lines 45-46
TxSave ==
    /\ tx.pc = "lines"
    /\ tx.i > Len(tx.text)
    /\ tx' = [tx EXCEPT !.pc = "returned"]
    /\ UNCHANGED <<platform, fs, req, dx, zp, acc, mr, fonts, pi>>

\* the input files: up to MaxLines lines, numbered, some of which cannot be
\* drawn
MaxLines == 100
BadLines == {{}, {1}, {48}, {48, 49}, {95}}
TextFile(n, B) == [k \in 1..n |-> [text |-> decimal(k) \o <<"\n">>, bad |-> k \in B]]

(***************************************************************************)
(* The service: two concurrent requests to /convert-to-pdf.                *)
(***************************************************************************)
Platforms == {"Windows", "Linux"}

FileNames ==
    {<<"report", ".docx">>, <<"report", ".DOCX">>, <<"report", ".txt">>,
     <<"photo", ".png">>, <<"data", ".xyz">>}

Uploads == {Upload(ok, <<>>) : ok \in BOOLEAN}

\* the members an uploaded archive is made of: documents and images, well
\* formed or corrupt, at the top level or in a sub-directory
Member(name, ok) == [name |-> name, file |-> Upload(ok, <<>>)]

MemberFiles ==
    {Member(<<"a", ".docx">>, TRUE), Member(<<"a", ".docx">>, FALSE),
     Member(<<"a", ".txt">>, TRUE),
     Member(<<"sub", Sep, "a", ".txt">>, TRUE),
     Member(<<"images_merged", ".txt">>, TRUE),
     Member(<<"p", ".png">>, TRUE), Member(<<"p", ".png">>, FALSE),
     Member(<<"sub", Sep, "q", ".png">>, TRUE),
     Member(<<"a", ".pdf">>, TRUE)}

MaxMembers == 2

\* archives of at most MaxMembers members with distinct names
Archives ==
    UNION {{s \in [1..n -> MemberFiles] :
               \A i, j \in 1..n : i # j => s[i].name # s[j].name} : n \in 0..MaxMembers}

ZipUploads == {Upload(TRUE, a) : a \in Archives} \cup {Upload(FALSE, <<>>)}

\* one request at a time
Init ==
    /\ platform \in Platforms
    /\ fs = <<>>
    /\ \/ \E n \in FileNames, u \in Uploads :
            req = [r \in Reqs |-> IF r = "r1" THEN NewRequest(n, u) ELSE NoRequest]
       \/ \E u \in ZipUploads :
            req = [r \in Reqs |-> IF r = "r1" THEN NewRequest(<<"batch", ".zip">>, u)
                                  ELSE NoRequest]
    /\ dx = [r \in Reqs |-> NoCall]
    /\ zp = [r \in Reqs |-> NoZip]
    /\ acc = [r \in Reqs |-> {}]
    /\ mr = NoRender
    /\ fonts = NoFonts
    /\ tx = NoTxt
    /\ pi = NoImages

Next ==
    \E r \in Reqs :
        \/ Stage(r)
        \/ Dispatch(r)
        \/ DocxStep(r)
        \/ DocxDone(r)
        \/ ZipStart(r)
        \/ ZipDoc(r)
        \/ ZipDocxDone(r)
        \/ ZipMerge(r)
        \/ ZipOut(r)
        \/ ZipRaised(r)
        \/ Finish(r)
        \/ SendFile(r)

Spec == Init /\ [][Next]_vars

\* two concurrent requests
ConcFileNames == {<<"report", ".docx">>, <<"report", ".txt">>}

InitConc ==
    /\ platform \in Platforms
    /\ fs = <<>>
    /\ req \in [Reqs -> {NewRequest(n, Upload(TRUE, <<>>)) : n \in ConcFileNames}]
    /\ dx = [r \in Reqs |-> NoCall]
    /\ zp = [r \in Reqs |-> NoZip]
    /\ acc = [r \in Reqs |-> {}]
    /\ mr = NoRender
    /\ fonts = NoFonts
    /\ tx = NoTxt
    /\ pi = NoImages

NextConc ==
    \E r \in Reqs :
        \/ Stage(r)
        \/ Dispatch(r)
        \/ DocxStep(r)
        \/ DocxDone(r)
        \/ Finish(r)
        \/ SendFile(r)

SpecConc == InitConc /\ [][NextConc]_vars

\* no request is being served while a converter is examined on its own
ServiceIdle ==
    /\ fs = <<>>
    /\ req = [r \in Reqs |-> NoRequest]
    /\ dx = [r \in Reqs |-> NoCall]
    /\ zp = [r \in Reqs |-> NoZip]
    /\ acc = [r \in Reqs |-> {}]

\* the manual layout renderer run on one document
InitManual ==
    /\ platform \in Platforms
    /\ ServiceIdle
    /\ \E d \in Documents :
          mr = [NoRender EXCEPT !.pc = "open", !.ok = d.ok,
                                !.paragraphs = d.paragraphs, !.tables = d.tables]
    /\ fonts = NoFonts
    /\ tx = NoTxt
    /\ pi = NoImages

NextManual ==
    \/ MrOpen
    \/ MrParagraph
    \/ MrTable
    \/ MrBuild

SpecManual == InitManual /\ [][NextManual]_vars

\* pdf_to_images_zip run on one PDF
InitImages ==
    /\ platform \in Platforms
    /\ ServiceIdle
    /\ mr = NoRender
    /\ fonts = NoFonts
    /\ tx = NoTxt
    /\ \E n \in PageCounts, fmt \in ImageFormats, c \in BOOLEAN, ok \in BOOLEAN :
          pi = [NoImages EXCEPT !.pc = "start", !.pdf_ok = ok, !.n = n,
                                !.image_format = fmt, !.cleanup = c,
                                !.output_dir = images_output_dir("r1")]

NextImages ==
    \/ PiConvert
    \/ PiSavePages
    \/ PiZip
    \/ PiCleanup

SpecImages == InitImages /\ [][NextImages]_vars

\* font resolution on one host; line 375: only Windows probes, and only a
\* Windows host holds files under C:/Windows/Fonts
InitFonts ==
    /\ platform \in Platforms
    /\ ServiceIdle
    /\ mr = NoRender
    /\ tx = NoTxt
    /\ pi = NoImages
    /\ \E avail \in (IF platform = "Windows" THEN SUBSET FontNames ELSE {{}}) :
          fonts = [NoFonts EXCEPT !.avail = avail,
                                  !.pc = IF platform = "Windows" THEN "hindi" ELSE "default"]

NextFonts ==
    \/ FontsHindi
    \/ FontsArabic
    \/ FontsChinese
    \/ FontsUniversal
    \/ FontsDefault

SpecFonts == InitFonts /\ [][NextFonts]_vars

\* convert_txt_to_pdf run on one text file
InitTxt ==
    /\ platform \in Platforms
    /\ ServiceIdle
    /\ mr = NoRender
    /\ fonts = NoFonts
    /\ pi = NoImages
    /\ \/ \E n \in 0..MaxLines, B \in BadLines :
            /\ B \subseteq 1..n
            /\ tx = [NoTxt EXCEPT !.pc = "font", !.text = TextFile(n, B)]
       \/ tx = [NoTxt EXCEPT !.pc = "font", !.readable = FALSE]

NextTxt ==
    \/ TxFont
    \/ TxOpen
    \/ TxLine
    \/ TxSave

SpecTxt == InitTxt /\ [][NextTxt]_vars

(***************************************************************************)
(* Properties.                                                             *)
(***************************************************************************)
Range(s) == {s[i] : i \in DOMAIN s}

\* the strategies of the cascade in their priority order; automation exists
\* on Windows only
StrategyOrder(pf) ==
    IF pf = "Windows" THEN <<"automation", "direct", "bridge", "manual">>
    ELSE <<"direct", "bridge", "manual">>

StrategyOf(engine) ==
    CASE engine \in {"docx2pdf", "wordcom"} -> "automation"
      [] engine = "pandoc_pdf" -> "direct"
      [] engine \in {"pdfkit", "xhtml2pdf"} -> "bridge"
      [] OTHER -> "manual"

\* C1: whenever convert_docx_to_pdf returns a path, the file at that path
\* exists and has size > 0; when the call ends in an error instead, every
\* strategy of the platform has failed and no path is returned.
C1_ReturnedFileValid ==
    \A r \in Reqs :
        /\ dx[r].pc = "returned" =>
              /\ dx[r].result # NoPath
              /\ abspath(dx[r].result) \in DOMAIN fs
              /\ fs[abspath(dx[r].result)].size > 0
        /\ dx[r].pc = "raised" =>
              /\ dx[r].result = NoPath
              /\ dx[r].failed = Range(StrategyOrder(platform))

\* the final, manual-layout strategy returned a path
C1_Witness ==
    \E r \in Reqs : dx[r].pc = "returned" /\ dx[r].by = "manual"

\* C2: the strategies are attempted in the fixed order automation, direct
\* engine, HTML bridge, manual layout; a strategy is attempted only after
\* every earlier strategy has failed; the call returns from the first strategy
\* whose output is validated, and no later strategy is attempted.
C2_FixedOrderShortCircuit ==
    \A r \in Reqs :
        LET a == dx[r].attempts
            order == StrategyOrder(platform)
        IN dx[r].pc # "none" =>
              /\ Len(a) <= Len(order)
              /\ a = SubSeq(order, 1, Len(a))
              /\ \A i \in 1..(Len(a) - 1) : a[i] \in dx[r].failed
              /\ dx[r].pc = "returned" =>
                    /\ Len(a) > 0
                    /\ StrategyOf(dx[r].by) = a[Len(a)]
                    /\ a[Len(a)] \notin dx[r].failed

\* on Windows, automation and the direct engine failed and the HTML bridge
\* returned
C2_Witness ==
    \E r \in Reqs :
        /\ dx[r].pc = "returned"
        /\ dx[r].attempts = <<"automation", "direct", "bridge">>
        /\ dx[r].by = "xhtml2pdf"

\* the extensions the endpoint dispatches on (main.py lines 42-48)
SupportedExts == {".docx", ".txt", ".jpg", ".jpeg", ".png", ".zip"}

ProducedFiles(f) == {p \in DOMAIN f : f[p].kind # "upload"}

\* C3: a file with an unsupported extension is answered with status 400 and
\* a detail that names the extension; no converter is invoked and no output
\* file is written.
C3_UnsupportedIs400 ==
    \A r \in Reqs :
        (req[r].pc = "done" /\ req[r].outcome # "stage_error"
            /\ req[r].ext \notin SupportedExts) =>
              /\ req[r].response.status = 400
              /\ \E i \in DOMAIN req[r].response.detail :
                    req[r].response.detail[i] = req[r].ext
              /\ req[r].invoked = {}
              /\ ProducedFiles(fs) = {}

Active(r) == req[r].pc \notin {"absent", "idle", "done"}

\* C4: two concurrent requests never read, write or delete the same path.
C4_RequestsIsolated ==
    \A r1, r2 \in Reqs :
        (r1 # r2 /\ Active(r1) /\ Active(r2)) => acc[r1] \cap acc[r2] = {}

\* C5: once the HTML bridge has been left, by success or by any failure, the
\* temporary HTML file does not exist.
C5_HtmlRemoved ==
    \A r \in Reqs :
        ("bridge" \in Range(dx[r].attempts)
            /\ dx[r].pc \in {"manual", "returned", "raised", "none"}) =>
              abspath(dx[r].html_temp_path) \notin DOMAIN fs

\* C10: after a request has finished with success, with an
\* unsupported-extension error or with a conversion error, its staged input
\* file no longer exists.
C10_InputRemoved ==
    \A r \in Reqs :
        (req[r].pc \in {"responding", "done"}
            /\ req[r].outcome \in {"success", "unsupported", "conversion_error"}) =>
              abspath(req[r].input_path) \notin DOMAIN fs

\* a request whose conversion failed has been answered
C10_Witness ==
    \E r \in Reqs :
        /\ req[r].pc = "done"
        /\ req[r].outcome = "conversion_error"
        /\ req[r].invoked # {}

\* the extension of an archive member, as the handler classifies it
MemberExt(m) == lower(splitext(basename(m.name))[2])

\* where extractall puts a member of the archive of request r
ExtractedPath(r, m) == join(extract_dir(mkdtemp(r)), m.name)

\* the archive holds exactly one corrupt DOCX and one well-formed TXT
CorruptDocxAndValidTxt(u) ==
    /\ u.ok
    /\ Len(u.members) = 2
    /\ \E i, j \in 1..2 :
          /\ MemberExt(u.members[i]) = ".docx" /\ ~u.members[i].file.ok
          /\ MemberExt(u.members[j]) = ".txt" /\ u.members[j].file.ok

TxtMember(u) == CHOOSE m \in Range(u.members) : MemberExt(m) = ".txt"

\* C6: a failure converting one document never aborts the batch: the call
\* raises only when the archive itself cannot be opened, every document is
\* processed and every well-formed TXT is converted; for an archive of one
\* corrupt DOCX and one valid TXT the output archive holds exactly the PDF of
\* the TXT.
C6_FailureDoesNotAbortBatch ==
    \A r \in Reqs :
        /\ zp[r].pc \in {"raised", "failed"} => ~req[r].upload.ok
        /\ zp[r].pc \in {"zipout", "returned"} =>
              \A i \in DOMAIN zp[r].document_files :
                  /\ zp[r].status[i] # "pending"
                  /\ (zp[r].document_files[i].ext = ".txt"
                        /\ fs[abspath(zp[r].document_files[i].file_path)].ok) =>
                        zp[r].status[i] \in {"moved", "failed_move"}
        /\ (zp[r].pc = "returned" /\ CorruptDocxAndValidTxt(req[r].upload)) =>
              LET txt == TxtMember(req[r].upload)
                  E == fs[abspath(zp[r].result)].entries
              IN /\ Cardinality(E) = 1
                 /\ \A e \in E :
                       /\ e.name = splitext(basename(txt.name))[1] \o <<".pdf">>
                       /\ e.file.kind = "pdf"
                       /\ e.file.by = "txt"
                       /\ e.file.src = ExtractedPath(r, txt)

\* the batch of a corrupt DOCX and a valid TXT has been answered with an
\* archive, after the DOCX failed in the cascade
C6_Witness ==
    \E r \in Reqs :
        /\ zp[r].pc = "returned"
        /\ CorruptDocxAndValidTxt(req[r].upload)
        /\ "failed" \in Range(zp[r].status)
        /\ "manual" \in dx[r].failed

\* C7: the number of document entries of the output archive (every entry
\* except images_merged.pdf written by the merge) equals the number of
\* documents whose conversion succeeded, and each of them is named by a
\* document's base name plus .pdf.
C7_OneEntryPerConvertedDocument ==
    \A r \in Reqs :
        zp[r].pc = "returned" =>
            LET E == fs[abspath(zp[r].result)].entries
                DocEntries == {e \in E : e.file.by # "merge"}
                Converted == {i \in DOMAIN zp[r].status : zp[r].status[i] = "moved"}
            IN /\ Cardinality(DocEntries) = Cardinality(Converted)
               /\ Cardinality({e \in E : e.file.by = "merge"}) <= 1
               /\ \A e \in DocEntries : \E i \in Converted :
                     e.name = splitext(zp[r].document_files[i].filename)[1] \o <<".pdf">>

images_merged_path(r) ==
    abspath(join(pdf_output_dir(zp[r].temp_dir), <<"images_merged", ".pdf">>))

OkImages(f, image_files) ==
    SelectSeq([i \in DOMAIN image_files |-> image_files[i].file_path],
              LAMBDA p : f[abspath(p)].ok)

\* C8: when exactly one image of the list cannot be opened, whatever its
\* position, the merged PDF is still produced and holds every other image as
\* a page.
C8_OnlyFailedImageSkipped ==
    \A r \in Reqs :
        (/\ zp[r].pc = "zipout"
         /\ Len(zp[r].image_files) >= 2
         /\ Len(OkImages(fs, zp[r].image_files)) = Len(zp[r].image_files) - 1) =>
              /\ images_merged_path(r) \in DOMAIN fs
              /\ fs[images_merged_path(r)].by = "merge"
              /\ fs[images_merged_path(r)].members = OkImages(fs, zp[r].image_files)

\* the images of the uploaded archive, in archive order, at the paths they
\* are extracted to
ArchiveImages(r) ==
    LET ms == SelectSeq(req[r].upload.members, LAMBDA m : MemberExt(m) \in ImageExts)
    IN [i \in DOMAIN ms |-> ExtractedPath(r, ms[i])]

\* C9: the pages of the merged PDF are the successfully added images in the
\* order of the uploaded archive, one page per image.
C9_PagesInArchiveOrder ==
    \A r \in Reqs :
        (zp[r].pc = "zipout" /\ zp[r].merged = "merged") =>
            fs[images_merged_path(r)].members
                = SelectSeq(ArchiveImages(r), LAMBDA p : fs[abspath(p)].ok)

\* C11: on every exit path of the Word COM attempt on which an instance was
\* started (a failure to open or to save, a failing Close and a failed
\* output validation included) the instance has been quit when the cascade
\* continues or returns: no call is ever left with a running instance.
C11_WordReleased ==
    \A r \in Reqs :
        /\ dx[r].word # "running"
        /\ (dx[r].pc = "returned" /\ dx[r].by = "wordcom") => dx[r].word = "quit"
        /\ dx[r].word = "quit" => platform = "Windows"

\* Word was started, the attempt failed, the instance was quit and the
\* cascade went on
C11_Witness ==
    \E r \in Reqs :
        /\ dx[r].word = "quit"
        /\ "automation" \in dx[r].failed
        /\ dx[r].pc = "pandoc_pdf"

\* C12: every run of the manual renderer that reaches final assembly returns
\* the output path without raising; an empty story gives the "No content found
\* in document" page and a failed assembly gives the error page.
C12_AssemblyNeverRaises ==
    (mr.pc \in {"returned", "raised"} /\ mr.ok) =>
        /\ mr.pc = "returned"
        /\ mr.result = "output_path"
        /\ (mr.story = <<>> => mr.pdf = "nocontent")
        /\ (mr.story # <<>> => mr.pdf \in {"story", "error"})

\* the Paragraph flowables the story holds for paragraph i
ParaEntries(i) ==
    {n \in DOMAIN mr.story :
        /\ mr.story[n].kind = "Paragraph"
        /\ mr.story[n].origin = "para"
        /\ mr.story[n].i = i}

TableEntries(t) ==
    {n \in DOMAIN mr.story : mr.story[n].kind = "Table" /\ mr.story[n].i = t}
RowEntries(t, k) ==
    {n \in DOMAIN mr.story :
        mr.story[n].origin = "row" /\ mr.story[n].i = t /\ mr.story[n].j = k}
TitleEntries(t) ==
    {n \in DOMAIN mr.story : mr.story[n].origin = "table_title" /\ mr.story[n].i = t}

Ragged(tb) ==
    \E a, b \in DOMAIN tb.rows : Len(tb.rows[a].cells) # Len(tb.rows[b].cells)
HasText(row) == \E c \in DOMAIN row.cells : strip(row.cells[c]) # <<>>
Pipes(text) == Len(SelectSeq(text, LAMBDA c : c = "|"))

\* C14 as stated, for a table that holds some text: every row of a ragged
\* table is rendered, padded to the maximum column count, on the normal path
\* and on the text fallback path.
C14_EveryRowPadded ==
    \A t \in 1..(mr.t - 1) :
        LET tb == mr.tables[t]
            mc == max_cols_of(tb.rows)
        IN (Ragged(tb) /\ \E k \in DOMAIN tb.rows : HasText(tb.rows[k])) =>
             \/ \E n \in TableEntries(t) :
                   /\ Len(mr.story[n].data) = Len(tb.rows)
                   /\ \A k \in DOMAIN tb.rows : Len(mr.story[n].data[k]) = mc
             \/ \A k \in DOMAIN tb.rows :
                   \E n \in RowEntries(t, k) : Pipes(mr.story[n].text) = mc - 1

\* C14 (amended): a table with some text whose construction does not raise is
\* rendered with every row, each padded with empty cells to the maximum column
\* count; a table without any text is omitted; on the text fallback path a row
\* is one line of its non-empty cell texts, without padding, and a row without
\* text or whose line fails to render is skipped.
C14_RaggedTable ==
    \A t \in 1..(mr.t - 1) :
        LET tb == mr.tables[t]
            mc == max_cols_of(tb.rows)
            any_text == \E k \in DOMAIN tb.rows : HasText(tb.rows[k])
            all_rows == UNION {RowEntries(t, k) : k \in DOMAIN tb.rows}
        IN /\ ~any_text =>
                TableEntries(t) = {} /\ all_rows = {} /\ TitleEntries(t) = {}
           /\ (any_text /\ tb.hazard = "none") =>
                /\ Cardinality(TableEntries(t)) = 1
                /\ all_rows = {}
                /\ \A n \in TableEntries(t) :
                      /\ Len(mr.story[n].data) = Len(tb.rows)
                      /\ \A k \in DOMAIN tb.rows :
                            /\ Len(mr.story[n].data[k]) = mc
                            /\ \A c \in 1..mc :
                                  mr.story[n].data[k][c].text =
                                    (IF c <= Len(tb.rows[k].cells)
                                     THEN escape(strip(tb.rows[k].cells[c]))
                                     ELSE <<>>)
           /\ (any_text /\ tb.hazard = "construct") =>
                /\ TableEntries(t) = {}
                /\ Cardinality(TitleEntries(t)) = 1
                /\ \A k \in DOMAIN tb.rows :
                      /\ Cardinality(RowEntries(t, k)) =
                            (IF HasText(tb.rows[k]) /\ ~tb.rows[k].bad THEN 1 ELSE 0)
                      /\ \A n \in RowEntries(t, k) :
                            Pipes(mr.story[n].text) =
                              Cardinality({c \in DOMAIN tb.rows[k].cells :
                                             strip(tb.rows[k].cells[c]) # <<>>}) - 1
                /\ \A a, b \in DOMAIN tb.rows :
                      a < b => \A n \in RowEntries(t, a), m \in RowEntries(t, b) : n < m

\* a ragged table was rendered on the normal path with a padded shorter row
C14_Witness ==
    /\ mr.pc = "returned"
    /\ \E t \in DOMAIN mr.tables :
          /\ Ragged(mr.tables[t])
          /\ \E n \in TableEntries(t), k \in DOMAIN mr.tables[t].rows :
                /\ Len(mr.tables[t].rows[k].cells) < Len(mr.story[n].data[k])
                /\ mr.story[n].data[k][Len(mr.story[n].data[k])] = EmptyCell

\* C15: the page images are named page_<number> with a zero-padded number of
\* one fixed width, in page order; the archive holds exactly these images, one
\* entry per page; with cleanup no page image remains and the archive exists.
C15_FixedWidthNames ==
    pi.pc = "returned" =>
        /\ abspath(pi.zip_filename) \in DOMAIN fs
        /\ LET members == fs[abspath(pi.zip_filename)].members
           IN /\ Len(members) = pi.n
              /\ \A k \in 1..pi.n :
                   /\ members[k].file = PageImage(k - 1)
                   /\ members[k].name[1] = "page_"
                   /\ Len(members[k].name) = Len(img_name(0, pi.image_format))
        /\ pi.cleanup => \A q \in DOMAIN fs : fs[q].kind # "image"

\* C16: whenever the render of the browser engine has failed (missing
\* executable, rendering error, output missing or empty), xhtml2pdf is entered
\* and the finished HTML file is there for it to render.
C16_XhtmlOnFinishedHtml ==
    \A r \in Reqs :
        (dx[r].pc = "xhtml2pdf"
            /\ dx[r].pdfkit_fail \in {"raised", "output"}) =>
          /\ abspath(dx[r].html_temp_path) \in DOMAIN fs
          /\ fs[abspath(dx[r].html_temp_path)].kind = "html"
          /\ fs[abspath(dx[r].html_temp_path)].size > 0

\* C17: markup that comes from mammoth, the empty string included, is wrapped
\* in the styled shell and written to the temporary HTML file; the branch
\* that only injects CSS is taken only when pypandoc produced the HTML file.
C17_MammothMarkupWrapped ==
    \A r \in Reqs :
        /\ dx[r].html_branch = "css" => dx[r].html_content = "None"
        /\ (dx[r].html_content \in {"markup", "empty"} /\ dx[r].html_branch # "none") =>
              dx[r].html_branch = "wrap"
        /\ (dx[r].html_content \in {"markup", "empty"} /\ dx[r].pc = "pdfkit") =>
              /\ abspath(dx[r].html_temp_path) \in DOMAIN fs
              /\ fs[abspath(dx[r].html_temp_path)].by = "mammoth"

\* the first candidate of cands whose registration succeeds, "" if none
FirstAvailable(cands) ==
    LET I == {k \in DOMAIN cands : cands[k].font_name \in fonts.avail}
    IN IF I = {} THEN ""
       ELSE cands[CHOOSE k \in I : \A m \in I : k <= m].font_name

\* the candidates of cands up to the first one whose registration succeeds
Tried(cands) ==
    LET I == {k \in DOMAIN cands : cands[k].font_name \in fonts.avail}
        last == IF I = {} THEN Len(cands) ELSE CHOOSE k \in I : \A m \in I : k <= m
    IN [k \in 1..last |-> cands[k].font_name]

\* C18 as stated: each of the four categories is probed in candidate order
\* and bound to its first candidate that registers; the main font is the first font registered overall and is
\* the built-in font exactly when no candidate registered.
C18_EveryCategoryProbed ==
    fonts.pc = "done" =>
        /\ \A c \in Categories :
              /\ Range(Tried(font_mappings[c])) \subseteq Range(fonts.probed)
              /\ fonts.registered_fonts[c] = FirstAvailable(font_mappings[c])
        /\ fonts.main_font = "Helvetica" <=>
              \A c \in Categories : fonts.registered_fonts[c] = ""

\* C18 (amended): on Windows the Devanagari and Arabic/Urdu categories are
\* probed in candidate order and the Chinese category in the order of its
\* candidates that are not .ttc files, each bound to its first candidate that
\* registers; the universal category is probed only when none of these three
\* registered a font; elsewhere nothing is probed.  The main font is the first
\* font registered overall, and the built-in font exactly when none registered.
C18_FontResolution ==
    fonts.pc = "done" =>
        LET h == FirstAvailable(font_mappings.hindi)
            a == FirstAvailable(font_mappings.arabic)
            c == FirstAvailable(not_ttc(font_mappings.chinese))
            scripts == h # "" \/ a # "" \/ c # ""
            u == IF scripts THEN "" ELSE FirstAvailable(font_mappings.universal)
        IN IF platform = "Windows"
           THEN /\ fonts.registered_fonts =
                     [hindi |-> h, arabic |-> a, chinese |-> c, universal |-> u]
                /\ fonts.probed =
                     Tried(font_mappings.hindi) \o Tried(font_mappings.arabic)
                       \o Tried(not_ttc(font_mappings.chinese))
                       \o (IF scripts THEN <<>> ELSE Tried(font_mappings.universal))
                /\ fonts.main_font =
                     (IF h # "" THEN h ELSE IF a # "" THEN a ELSE IF c # "" THEN c
                      ELSE IF u # "" THEN u ELSE "Helvetica")
                /\ fonts.main_font = "Helvetica" <=>
                     \A k \in Categories : fonts.registered_fonts[k] = ""
           ELSE /\ fonts.probed = <<>>
                /\ \A k \in Categories : fonts.registered_fonts[k] = ""
                /\ fonts.main_font = "Helvetica"

\* the second Devanagari candidate became the main font and the universal
\* category was not probed although one of its fonts is on the host
C18_Witness ==
    /\ fonts.pc = "done"
    /\ "NirmalaFont" \notin fonts.avail
    /\ fonts.main_font = "MangalFont"
    /\ fonts.registered_fonts.hindi = "MangalFont"
    /\ "ArialFont" \in fonts.avail
    /\ fonts.registered_fonts.universal = ""

\* C19: every line is drawn exactly once, in input order, from the top of a
\* page downwards by the line height; a page is started exactly when the
\* position has dropped below the bottom margin; every line is drawn between
\* 50 and 750, no page holds more than 47 lines, and a line that cannot be
\* drawn is replaced, alone, by the placeholder.
C19_Pagination ==
    tx.pc \in {"lines", "returned"} =>
        /\ Len(tx.drawn) = tx.i - 1
        /\ tx.pc = "returned" => Len(tx.drawn) = Len(tx.text)
        /\ \A k \in DOMAIN tx.drawn :
             LET d == tx.drawn[k]
             IN /\ d.line = k
                /\ d.y >= 50 /\ d.y <= 750
                /\ d.text = (IF tx.text[k].bad THEN <<"Unable to render line">>
                             ELSE decimal(k))
                /\ k = 1 => (d.page = 1 /\ d.y = 750)
                /\ k > 1 =>
                     LET q == tx.drawn[k - 1]
                     IN IF q.y - 15 < 50
                        THEN d.page = q.page + 1 /\ d.y = 750
                        ELSE d.page = q.page /\ d.y = q.y - 15
        /\ \A p \in 1..tx.page :
             Cardinality({k \in DOMAIN tx.drawn : tx.drawn[k].page = p}) <= 47

\* a file of three pages was written; the first line of the second page was
\* replaced by the placeholder and the next line drawn as it is
C19_Witness ==
    /\ tx.pc = "returned"
    /\ tx.page = 3
    /\ \E k \in DOMAIN tx.drawn :
          /\ k < Len(tx.drawn)
          /\ tx.drawn[k].page = 2
          /\ tx.drawn[k].y = 750
          /\ tx.drawn[k].text = Placeholder
          /\ tx.drawn[k + 1].text = decimal(k + 1)
          /\ tx.drawn[k + 1].y = 735

\* the stamps of the files an engine writes
WrittenBy(engine) ==
    IF engine = "manual" THEN {"reportlab", "reportlab:error", "reportlab:nocontent"}
    ELSE {engine}

\* C20: the file a strategy of convert_docx_to_pdf validates and returns was
\* written by that strategy, from the input of the current call; a file that
\* was already at the output path is never accepted for a strategy that wrote
\* nothing.
C20_ReturnedFileIsFresh ==
    \A r \in Reqs :
        dx[r].pc = "returned" =>
            /\ abspath(dx[r].result) \in DOMAIN fs
            /\ fs[abspath(dx[r].result)].by \in WrittenBy(dx[r].by)
            /\ fs[abspath(dx[r].result)].src = dx[r].input_path

\* C21: every entry of the archive handle_zip_file returns is a PDF produced
\* during that call, from one of the documents of the call or by the image
\* merge: never an extracted member of the uploaded archive (a PDF that was
\* inside it included), a temporary HTML or JPEG file, or the output of a
\* conversion that raised.
C21_OnlyProducedPdfs ==
    \A r \in Reqs :
        zp[r].pc = "returned" =>
            \A e \in fs[abspath(zp[r].result)].entries :
                /\ e.file.kind = "pdf"
                /\ e.file.by # "client"
                /\ \/ e.file.by = "merge"
                   \/ \E k \in DOMAIN zp[r].document_files :
                        /\ e.file.src = zp[r].document_files[k].file_path
                        /\ zp[r].status[k] = "moved"

====
